---------------------------- MODULE Spec2Model ----------------------------
(* Model of malayalam_extractor.py: the Malayalam text filter              *)
(* (process_and_check_malayalam_text), the per-archive scan                *)
(* (convert_warc_to_text) and the driver loop (main).                      *)
EXTENDS Integers, Sequences, FiniteSets, TLC

(***************************************************************************)
(* Program constants.                                                      *)
(***************************************************************************)
MAX_RETRIES == 20
RETRY_DELAY == 10
\* default value of the parameter min_malayalam_words
DEFAULT_MIN_WORDS == 40
\* the character class [U+0D00-U+0D7F]
RANGE_LO == 3328
RANGE_HI == 3455

(***************************************************************************)
(* Bounds of the model.                                                    *)
(***************************************************************************)
\* longest HTML token stream the filter specification enumerates
MaxLen == 4
\* largest threshold the filter specification enumerates (smallest is -1)
MaxMin == 3
\* longest source list
MaxEntries == 2

(***************************************************************************)
(* Characters are code points.  An HTML document is a stream of tokens:    *)
(* characters, start tags and end tags.                                    *)
(***************************************************************************)
\* the separator of " ".join
SPACE == 32
\* a character outside the class (the letter x)
LATIN_X == SPACE + 88
\* a character of the class (U+0D05)
MAL_A == RANGE_LO + 5

Ch(c) == [k |-> "ch", c |-> c, tag |-> "none"]
Open(t) == [k |-> "open", c |-> 0, tag |-> t]
Close(t) == [k |-> "close", c |-> 0, tag |-> t]
\* a payload on which the HTML parser raises
Bad == [k |-> "bad", c |-> 0, tag |-> "none"]

\* Python's None, told apart from every string: -1 is no code point
None == <<-1>>

\* membership in the character class [U+0D00-U+0D7F]
IsMalayalam(c) == c >= RANGE_LO /\ c <= RANGE_HI

\* str.strip() whitespace
IsSpace(c) == c = SPACE

RawTagsStyleOnly == {"style"}
\* the elements line 65 selects
RawTags == {"style", "script"}

Min(S) == CHOOSE x \in S : \A y \in S : x <= y

(***************************************************************************)
(* BeautifulSoup(html_content, 'html.parser') followed by decompose() of   *)
(* every style and script element: the text nodes that remain, in document *)
(* order.  Inside a style or script element everything up to its end tag   *)
(* is the element's content; any tag outside ends the current text node.   *)
(* TextNodes(html, i) are the text nodes of the tokens from i on, i being  *)
(* outside every style and script element.                                 *)
(***************************************************************************)
RECURSIVE TextNodes(_, _)
TextNodes(html, i) ==
    IF i > Len(html) THEN <<>>
    ELSE LET t == html[i]
             \* first token from i on that is not a character
             stop == Min({j \in i..Len(html) : html[j].k # "ch"}
                             \cup {Len(html) + 1})
             \* end tag of the style or script element opened at i
             shut == Min({j \in (i + 1)..Len(html) :
                              html[j].k = "close" /\ html[j].tag = t.tag}
                             \cup {Len(html) + 1})
         IN  IF t.k = "ch"
             THEN <<[j \in 1..(stop - i) |-> html[i + j - 1].c]>>
                      \o TextNodes(html, stop)
             ELSE IF t.k = "open" /\ t.tag \in RawTags
                  THEN TextNodes(html, shut + 1)
                  ELSE TextNodes(html, i + 1)

RECURSIVE LStrip(_)
LStrip(s) == IF s # <<>> /\ IsSpace(Head(s)) THEN LStrip(Tail(s)) ELSE s

RECURSIVE RStrip(_)
RStrip(s) ==
    IF s # <<>> /\ IsSpace(s[Len(s)]) THEN RStrip(SubSeq(s, 1, Len(s) - 1)) ELSE s

Strip(s) == RStrip(LStrip(s))

\* soup.stripped_strings: every text node stripped, the empty ones dropped
RECURSIVE StrippedStrings(_)
StrippedStrings(nodes) ==
    IF nodes = <<>> THEN <<>>
    ELSE LET s == Strip(Head(nodes))
         IN  (IF s = <<>> THEN <<>> ELSE <<s>>) \o StrippedStrings(Tail(nodes))

\* " ".join(parts)
RECURSIVE Join(_)
Join(parts) ==
    IF parts = <<>> THEN <<>>
    ELSE IF Len(parts) = 1 THEN Head(parts)
    ELSE Head(parts) \o <<SPACE>> \o Join(Tail(parts))

\* re.findall(r'[U+0D00-U+0D7F]', text): every character a match of its own
FindAllNoPlus(text) ==
    LET hits == SelectSeq(text, IsMalayalam)
    IN  [j \in 1..Len(hits) |-> <<hits[j]>>]

\* re.findall(r'[U+0D00-U+0D7F]+', text): the search goes left to right from i; a
\* match starts at the first character of the class, takes as many
\* characters of the class as follow, and the search resumes after it
RECURSIVE FindAllFrom(_, _)
FindAllFrom(text, i) ==
    LET starts == {j \in i..Len(text) : IsMalayalam(text[j])}
    IN  IF starts = {} THEN <<>>
        ELSE LET b == Min(starts)
                 e == Min({j \in b..Len(text) :
                              j = Len(text) \/ ~IsMalayalam(text[j + 1])})
             IN  <<SubSeq(text, b, e)>> \o FindAllFrom(text, e + 1)

FindAll(text) == FindAllFrom(text, 1)

\* " ".join(soup.stripped_strings)
ReducedText(html) == Join(StrippedStrings(TextNodes(html, 1)))

\* text_content of line 69
TextContent(html) == Join(FindAll(ReducedText(html)))

ParseNeverRaises(html) == FALSE

\* BeautifulSoup(html_content, 'html.parser') raises (lines 59-63)
ParseRaises(html) == \E i \in 1..Len(html) : html[i].k = "bad"

LengthOkStrict(text_content, min_malayalam_words) ==
    Len(text_content) > min_malayalam_words

\* the test of line 74
LengthOk(text_content, min_malayalam_words) ==
    Len(text_content) >= min_malayalam_words

\* process_and_check_malayalam_text(html_content, min_malayalam_words)
process_and_check_malayalam_text(html_content, min_malayalam_words) ==
    IF ParseRaises(html_content) THEN None
    ELSE LET text_content == TextContent(html_content)
         IN  IF LengthOk(text_content, min_malayalam_words)
             THEN text_content
             ELSE None

(***************************************************************************)
(* Source identifiers, archives and payloads.                              *)
(***************************************************************************)
NoToken == "no-token"

Url(dir, stem, token) == [dir |-> dir, stem |-> stem, token |-> token]

\* os.path.basename(url)
Basename(url) == [stem |-> url.stem, token |-> url.token]

\* os.path.join(OUTPUT_DIRECTORY, os.path.basename(url))
LocalFilename(url) == Basename(url)

\* re.search(r'(\d{14}-\d{5})\.warc\.gz$', warc_file_path): the captured
\* group, or NoToken when the path does not end in the pattern
Matched(warc_file_path) == warc_file_path.token

Rep(n, c) == [i \in 1..n |-> Ch(c)]

\* "<html><body>" + 50 Malayalam characters + "</body></html>"
PageFifty ==
    <<Open("html"), Open("body")>> \o Rep(50, MAL_A)
        \o <<Close("body"), Close("html")>>
\* two runs of 20 and 19 characters: 40 characters once joined
PageSplit ==
    <<Open("p")>> \o Rep(20, MAL_A) \o <<Ch(LATIN_X)>> \o Rep(19, RANGE_HI)
\* one run of 39 characters
PageShort == Rep(39, MAL_A)
\* "<html><body>hello world</body></html>"
PageHello ==
    <<Open("html"), Open("body")>> \o Rep(5, LATIN_X) \o <<Ch(SPACE)>>
        \o Rep(5, LATIN_X) \o <<Close("body"), Close("html")>>
\* the Malayalam text sits in a script element only
PageScript ==
    <<Open("script")>> \o Rep(45, MAL_A) \o <<Close("script"), Ch(LATIN_X)>>
\* enough Malayalam text, in a payload the parser cannot take
PageBad == Rep(45, MAL_A) \o <<Bad>>

Response(page) == [rec_type |-> "response", content |-> page]
Other(t) == [rec_type |-> t, content |-> <<>>]
\* the place of an archive where its structure is broken
Corrupt == [rec_type |-> "corrupt", content |-> <<>>]

UrlA == Url("crawl-1", "a", "T1")
UrlB == Url("crawl-1", "b", "T1")
UrlC == Url("crawl-1", "c", "T2")
\* same file name as UrlA, another remote object
UrlD == Url("crawl-2", "a", "T1")
UrlN == Url("crawl-1", "n", NoToken)
UrlO == Url("crawl-1", "o", "T2")
\* an archive broken after its first record
UrlK == Url("crawl-1", "k", "T2")

Urls == {UrlA, UrlB, UrlC, UrlD, UrlN, UrlO, UrlK}
Tokens == {"T1", "T2"}
LocalFiles == {Basename(u) : u \in Urls}

\* the records of the remote object a URL names
Remote(url) ==
    CASE url = UrlA -> <<Other("warcinfo"), Response(PageFifty)>>
      [] url = UrlB -> <<Response(PageSplit), Response(PageBad),
                         Response(PageFifty)>>
      [] url = UrlC -> <<Other("request"), Response(PageHello),
                         Response(PageShort), Response(PageScript)>>
      [] url = UrlD -> <<Response(PageSplit)>>
      [] url = UrlN -> <<Response(PageFifty), Response(PageHello)>>
      [] url = UrlO -> <<Other("warcinfo"), Other("metadata")>>
      [] url = UrlK -> <<Response(PageFifty), Corrupt, Response(PageSplit)>>

(***************************************************************************)
(* State.                                                                  *)
(***************************************************************************)
VARIABLES
    srcList,            \* the lines of warc.paths
    run,                \* which execution of main() this is
    pc,                 \* position of main()
    idx,                \* number of lines of warc.paths read so far
    retry,              \* loop variable of line 153
    rec,                \* position of the ArchiveIterator
    output_file_path,   \* local variable of convert_warc_to_text
    csv,                \* extraction_info.csv, one element per row
    errors,             \* error_log_info.csv, one element per row
    disk,               \* Extracted_files/: state of each local file
    texts,              \* Extracted Texts/: the extracted_text_*.txt files
    attempts,           \* history: wget calls made for the current line
    waits,              \* history: sleeps made for the current line
    hist,               \* history: what happened to each line in this run
    prev,               \* history: the files as the previous run left them
    fHtml, fMin, fOut, fpc   \* one call of the filter

pvars == <<srcList, run, pc, idx, retry, rec, output_file_path, csv, errors,
           disk, texts, attempts, waits, hist, prev>>
fvars == <<fHtml, fMin, fOut, fpc>>
vars == <<pvars, fvars>>

\* a local variable no assignment has bound yet
Unbound == <<>>
NoFile == [exists |-> FALSE, data |-> <<>>]

MetricsHeader ==
    [header |-> <<"File Name", "File Path", "Input File Size (MB)",
                  "Output File Size (KB)", "Time Taken (Minutes)">>]
ErrorHeader == [header |-> <<"File Path">>]

\* f"extracted_text_{unique_string}.txt"
OutputFileName(unique_string) == <<"extracted_text_", unique_string, ".txt">>
\* os.path.join(output_dir, output_file_name)
OutputFilePath(unique_string) ==
    <<"Extracted Texts/", OutputFileName(unique_string)>>

url == srcList[idx]
local_filename == LocalFilename(url)
\* the records ArchiveIterator yields from the downloaded file
archive == Remote(url)

FreshHist ==
    [j \in 1..Len(srcList) |->
        [retrieved |-> FALSE, failed |-> FALSE, scanned |-> FALSE,
         accepted |-> 0, appended |-> 0, created |-> FALSE,
         corrupt |-> FALSE, handed |-> <<>>]]

NoPrev == [ended |-> "none", texts |-> <<>>, csv |-> <<>>, errors |-> <<>>,
           retrieved |-> {}]

SrcLists == UNION {[1..n -> Urls] : n \in 0..MaxEntries}

Init ==
    /\ srcList \in SrcLists
    /\ run = 1
    /\ pc = "start"
    /\ idx = 0
    /\ retry = 0
    /\ rec = 0
    /\ output_file_path = Unbound
    /\ csv = <<>>
    /\ errors = <<>>
    /\ disk = [f \in LocalFiles |-> "absent"]
    /\ texts = [t \in Tokens |-> NoFile]
    /\ attempts = 0
    /\ waits = 0
    /\ hist = FreshHist
    /\ prev = NoPrev
    /\ fHtml = <<>> /\ fMin = 0 /\ fOut = None /\ fpc = "off"

(***************************************************************************)
(* main(), lines 133-144: both logs are opened with mode 'w' and get their *)
(* header row.                                                             *)
(***************************************************************************)
ResetLogsAppend ==
    /\ csv' = Append(csv, MetricsHeader)
    /\ errors' = Append(errors, ErrorHeader)

ResetLogs ==
    /\ csv' = <<MetricsHeader>>
    /\ errors' = <<ErrorHeader>>

MainStart ==
    /\ pc = "start"
    /\ ResetLogs
    /\ pc' = "loop"
    /\ UNCHANGED <<srcList, run, idx, retry, rec, output_file_path, disk,
                   texts, attempts, waits, hist, prev, fvars>>

\* line 148: the next line of warc.paths, or the end of the file
NextLine ==
    /\ pc = "loop"
    /\ idx < Len(srcList)
    /\ idx' = idx + 1
    /\ retry' = 0
    /\ attempts' = 0
    /\ waits' = 0
    /\ pc' = "fetch"
    /\ UNCHANGED <<srcList, run, rec, output_file_path, csv, errors, disk,
                   texts, hist, prev, fvars>>

\* line 177
Finish ==
    /\ pc = "loop"
    /\ idx = Len(srcList)
    /\ pc' = "finished"
    /\ UNCHANGED <<srcList, run, idx, retry, rec, output_file_path, csv,
                   errors, disk, texts, attempts, waits, hist, prev, fvars>>

\* lines 155-157: wget exits 0, break
DownloadOk ==
    /\ pc = "fetch"
    /\ attempts' = attempts + 1
    /\ disk' = [disk EXCEPT ![local_filename] = "complete"]
    /\ hist' = [hist EXCEPT ![idx].retrieved = TRUE]
    /\ pc' = "convert"
    /\ UNCHANGED <<srcList, run, idx, retry, rec, output_file_path, csv,
                   errors, texts, waits, prev, fvars>>

\* the row of lines 165-168
ErrorRow(path) == [File_Path |-> path, entry |-> idx, run |-> run]

DownloadFailLogged ==
    /\ pc = "fetch"
    /\ attempts' = attempts + 1
    /\ disk' = [disk EXCEPT ![local_filename] = "partial"]
    /\ errors' = Append(errors, ErrorRow(local_filename))
    /\ pc' = "sleep"
    /\ UNCHANGED <<srcList, run, idx, retry, rec, output_file_path, csv,
                   texts, waits, hist, prev, fvars>>

\* lines 155, 158-159: wget exits non-zero, having opened the -O file
DownloadFail ==
    /\ pc = "fetch"
    /\ attempts' = attempts + 1
    /\ disk' = [disk EXCEPT ![local_filename] = "partial"]
    /\ pc' = "sleep"
    /\ UNCHANGED <<srcList, run, idx, retry, rec, output_file_path, csv,
                   errors, texts, waits, hist, prev, fvars>>

LoopExhaustedLate(r) == r >= MAX_RETRIES
\* range(MAX_RETRIES) has no value after r
LoopExhausted(r) == r + 1 >= MAX_RETRIES

SleepUnlessLast ==
    /\ pc = "sleep"
    /\ IF LoopExhausted(retry)
       THEN /\ pc' = "logerr"
            /\ retry' = retry
            /\ waits' = waits
            /\ hist' = [hist EXCEPT ![idx].failed = TRUE]
       ELSE /\ pc' = "fetch"
            /\ retry' = retry + 1
            /\ waits' = waits + 1
            /\ hist' = hist
    /\ UNCHANGED <<srcList, run, idx, rec, output_file_path, csv, errors,
                   disk, texts, attempts, prev, fvars>>

\* line 160, then the next value of retry or the else clause of the loop
Sleep ==
    /\ pc = "sleep"
    /\ waits' = waits + 1
    /\ IF LoopExhausted(retry)
       THEN /\ pc' = "logerr"
            /\ retry' = retry
            /\ hist' = [hist EXCEPT ![idx].failed = TRUE]
       ELSE /\ pc' = "fetch"
            /\ retry' = retry + 1
            /\ hist' = hist
    /\ UNCHANGED <<srcList, run, idx, rec, output_file_path, csv, errors,
                   disk, texts, attempts, prev, fvars>>

LogErrorNoContinue ==
    /\ pc = "logerr"
    /\ errors' = Append(errors, ErrorRow(local_filename))
    /\ disk' = [disk EXCEPT ![local_filename] = "complete"]
    /\ pc' = "convert"
    /\ UNCHANGED <<srcList, run, idx, retry, rec, output_file_path, csv,
                   texts, attempts, waits, hist, prev, fvars>>

\* lines 162-168: the error row, then continue
LogError ==
    /\ pc = "logerr"
    /\ errors' = Append(errors, ErrorRow(local_filename))
    /\ retry' = 0
    /\ attempts' = 0
    /\ waits' = 0
    /\ pc' = "loop"
    /\ UNCHANGED <<srcList, run, idx, rec, output_file_path, csv, disk,
                   texts, hist, prev, fvars>>

(***************************************************************************)
(* convert_warc_to_text(local_filename, EXTRACTED_TEXT_DIRECTORY,          *)
(* csv_file_path)                                                          *)
(***************************************************************************)
\* lines 90-92: the file is opened and the iteration starts;
\* output_file_path is not bound yet.  retry is not read after the loop of
\* line 153, so its value and the attempt history are dropped here.
OpenWarc ==
    /\ pc = "convert"
    /\ rec' = 1
    /\ output_file_path' = Unbound
    /\ hist' = [hist EXCEPT ![idx].scanned = TRUE]
    /\ retry' = 0
    /\ attempts' = 0
    /\ waits' = 0
    /\ pc' = "scan"
    /\ UNCHANGED <<srcList, run, idx, csv, errors, disk, texts, prev, fvars>>

IsNotWarcinfo(record) == record.rec_type # "warcinfo"
\* line 93
IsResponse(record) == record.rec_type = "response"

WriteText(file, content) == [exists |-> TRUE, data |-> content]
PrependText(file, content) == [exists |-> TRUE, data |-> content \o file.data]
\* lines 110-111: open(output_file_path, 'a') and write
AppendText(file, content) == [exists |-> TRUE, data |-> file.data \o content]

\* line 92: ArchiveIterator meets the broken place and raises
\* (ArchiveLoadFailed, or the error of the decompressor); nothing catches it,
\* so it leaves convert_warc_to_text and main()
ScanCorruptRaises ==
    /\ pc = "scan"
    /\ rec <= Len(archive)
    /\ archive[rec] = Corrupt
    /\ hist' = [hist EXCEPT ![idx].corrupt = TRUE]
    /\ pc' = "crashed"
    /\ UNCHANGED <<srcList, run, idx, retry, rec, output_file_path, csv,
                   errors, disk, texts, attempts, waits, prev, fvars>>

\* line 92: ArchiveIterator takes the broken place for the end of the
\* archive (a truncated file) and the loop ends
ScanCorruptStops ==
    /\ pc = "scan"
    /\ rec <= Len(archive)
    /\ archive[rec] = Corrupt
    /\ hist' = [hist EXCEPT ![idx].corrupt = TRUE]
    /\ rec' = Len(archive) + 1
    /\ UNCHANGED <<srcList, run, pc, idx, retry, output_file_path, csv,
                   errors, disk, texts, attempts, waits, prev, fvars>>

\* lines 93-111: the body of the loop for one record
ScanRecord ==
    /\ pc = "scan"
    /\ rec <= Len(archive)
    /\ archive[rec] # Corrupt
    /\ rec' = rec + 1
    /\ LET record == archive[rec]
           content == process_and_check_malayalam_text(record.content,
                                                       DEFAULT_MIN_WORDS)
           unique_string == Matched(local_filename)
           \* history: the record's payload is handed to the filter
           seen == IF IsResponse(record)
                   THEN [hist EXCEPT ![idx].handed = Append(@, rec)]
                   ELSE hist
       IN  IF IsResponse(record) /\ content # None
           THEN IF unique_string # NoToken
                THEN /\ output_file_path' = OutputFilePath(unique_string)
                     /\ texts' = [texts EXCEPT ![unique_string] =
                                      AppendText(@, content)]
                     /\ hist' = [seen EXCEPT
                                   ![idx].accepted = @ + 1,
                                   ![idx].appended = @ + 1,
                                   ![idx].created =
                                       @ \/ ~texts[unique_string].exists]
                ELSE /\ hist' = [seen EXCEPT ![idx].accepted = @ + 1]
                     /\ UNCHANGED <<output_file_path, texts>>
           ELSE /\ hist' = seen
                /\ UNCHANGED <<output_file_path, texts>>
    /\ UNCHANGED <<srcList, run, pc, idx, retry, csv, errors, disk,
                   attempts, waits, prev, fvars>>

MetricsRow(path) ==
    [File_Name |-> path[2], File_Path |-> path,
     Input_Size |-> Len(archive),
     Output_Size |-> Len(texts[Matched(local_filename)].data),
     entry |-> idx, run |-> run]

MetricsRowNoOutput ==
    [File_Name |-> <<>>, File_Path |-> <<>>, Input_Size |-> Len(archive),
     Output_Size |-> 0, entry |-> idx, run |-> run]

MetricsWithoutOutput ==
    /\ pc = "scan"
    /\ rec > Len(archive)
    /\ output_file_path = Unbound
    /\ csv' = Append(csv, MetricsRowNoOutput)
    /\ pc' = "remove"
    /\ UNCHANGED <<srcList, run, idx, retry, rec, output_file_path, errors,
                   disk, texts, attempts, waits, hist, prev, fvars>>

MetricsRaisesCleansUp ==
    /\ pc = "scan"
    /\ rec > Len(archive)
    /\ output_file_path = Unbound
    /\ disk' = [disk EXCEPT ![local_filename] = "absent"]
    /\ pc' = "crashed"
    /\ UNCHANGED <<srcList, run, idx, retry, rec, output_file_path, csv,
                   errors, texts, attempts, waits, hist, prev, fvars>>

MetricsRaisesCaught ==
    /\ pc = "scan"
    /\ rec > Len(archive)
    /\ output_file_path = Unbound
    /\ pc' = "loop"
    /\ UNCHANGED <<srcList, run, idx, retry, rec, output_file_path, csv,
                   errors, disk, texts, attempts, waits, hist, prev, fvars>>

\* lines 113-117 when no text was written: output_file_path is read while
\* unbound, UnboundLocalError leaves convert_warc_to_text and main()
MetricsRaises ==
    /\ pc = "scan"
    /\ rec > Len(archive)
    /\ output_file_path = Unbound
    /\ pc' = "crashed"
    /\ UNCHANGED <<srcList, run, idx, retry, rec, output_file_path, csv,
                   errors, disk, texts, attempts, waits, hist, prev, fvars>>

WriteMetricsFirst ==
    /\ pc = "scan"
    /\ rec > Len(archive)
    /\ output_file_path # Unbound
    /\ csv' = <<MetricsRow(output_file_path)>> \o csv
    /\ pc' = "remove"
    /\ UNCHANGED <<srcList, run, idx, retry, rec, output_file_path, errors,
                   disk, texts, attempts, waits, hist, prev, fvars>>

\* lines 113-126: the sizes are read and the metrics row is appended
WriteMetrics ==
    /\ pc = "scan"
    /\ rec > Len(archive)
    /\ output_file_path # Unbound
    /\ csv' = Append(csv, MetricsRow(output_file_path))
    /\ pc' = "remove"
    /\ UNCHANGED <<srcList, run, idx, retry, rec, output_file_path, errors,
                   disk, texts, attempts, waits, hist, prev, fvars>>

KeepWarc ==
    /\ pc = "remove"
    /\ pc' = "loop"
    /\ UNCHANGED <<srcList, run, idx, retry, rec, output_file_path, csv,
                   errors, disk, texts, attempts, waits, hist, prev, fvars>>

\* line 174: os.remove(local_filename)
RemoveWarc ==
    /\ pc = "remove"
    /\ disk' = [disk EXCEPT ![local_filename] = "absent"]
    /\ pc' = "loop"
    /\ UNCHANGED <<srcList, run, idx, retry, rec, output_file_path, csv,
                   errors, texts, attempts, waits, hist, prev, fvars>>

\* the program is started again on the same warc.paths; the files of the
\* earlier run are still there
Rerun ==
    /\ pc \in {"finished", "crashed"}
    /\ run = 1
    /\ run' = run + 1
    /\ prev' = [ended |-> pc, texts |-> texts, csv |-> csv,
                errors |-> errors,
                retrieved |-> {j \in 1..Len(srcList) : hist[j].retrieved}]
    /\ pc' = "start"
    /\ idx' = 0
    /\ retry' = 0
    /\ rec' = 0
    /\ output_file_path' = Unbound
    /\ attempts' = 0
    /\ waits' = 0
    /\ hist' = FreshHist
    /\ UNCHANGED <<srcList, csv, errors, disk, texts, fvars>>

Next ==
    \/ MainStart
    \/ NextLine
    \/ Finish
    \/ DownloadOk
    \/ DownloadFail
    \/ Sleep
    \/ LogError
    \/ OpenWarc
    \/ ScanRecord
    \/ ScanCorruptRaises
    \/ ScanCorruptStops
    \/ MetricsRaises
    \/ WriteMetrics
    \/ RemoveWarc
    \/ Rerun

Spec == Init /\ [][Next]_vars

(***************************************************************************)
(* The filter alone: one call of process_and_check_malayalam_text on every *)
(* well-formed token stream of bounded length and every threshold.         *)
(***************************************************************************)
Alphabet ==
    {Ch(MAL_A), Ch(RANGE_HI), Ch(LATIN_X), Ch(SPACE), Open("p"),
     Open("script"), Close("script"), Open("style"), Close("style")}

\* every style and script element is closed, and no end tag of one is stray
RECURSIVE WellFormedFrom(_, _, _)
WellFormedFrom(html, i, raw) ==
    IF i > Len(html) THEN raw = "none"
    ELSE LET t == html[i]
         IN  IF raw # "none"
             THEN WellFormedFrom(html, i + 1,
                      IF t.k = "close" /\ t.tag = raw THEN "none" ELSE raw)
             ELSE IF t.k = "close" /\ t.tag \in RawTags THEN FALSE
             ELSE WellFormedFrom(html, i + 1,
                      IF t.k = "open" /\ t.tag \in RawTags THEN t.tag
                      ELSE "none")

WellFormed(html) == WellFormedFrom(html, 1, "none")

Documents ==
    {h \in UNION {[1..n -> Alphabet] : n \in 0..MaxLen} : WellFormed(h)}
        \cup {PageBad}

FilterInit ==
    /\ fHtml \in Documents
    /\ fMin \in -1..MaxMin
    /\ fOut = None
    /\ fpc = "call"
    /\ srcList = <<>>
    /\ run = 1
    /\ pc = "off"
    /\ idx = 0
    /\ retry = 0
    /\ rec = 0
    /\ output_file_path = Unbound
    /\ csv = <<>>
    /\ errors = <<>>
    /\ disk = [f \in LocalFiles |-> "absent"]
    /\ texts = [t \in Tokens |-> NoFile]
    /\ attempts = 0
    /\ waits = 0
    /\ hist = <<>>
    /\ prev = NoPrev

Evaluate ==
    /\ fpc = "call"
    /\ fOut' = process_and_check_malayalam_text(fHtml, fMin)
    /\ fpc' = "returned"
    /\ UNCHANGED <<fHtml, fMin, pvars>>

FilterNext == Evaluate

FilterSpec == FilterInit /\ [][FilterNext]_vars

(***************************************************************************)
(* Vocabulary of the properties.                                           *)
(***************************************************************************)
Running == pc \notin {"off", "start"}
Entries == 1..Len(srcList)
\* the entry has reached DONE, or the run ended while processing it
Ended(j) == j < idx \/ (j = idx /\ pc \in {"loop", "finished", "crashed"})
RowsOf(j) ==
    Cardinality({i \in 2..Len(csv) : csv[i].entry = j /\ csv[i].run = run})
ErrorRowsOf(j) ==
    Cardinality({i \in 2..Len(errors) :
                    errors[i].entry = j /\ errors[i].run = run})
HasToken(j) == Matched(LocalFilename(srcList[j])) # NoToken

\* C1 (as stated): once the record sequence of a retrieved archive is
\* exhausted the archive file is deleted and the driver goes on, whatever the
\* scan gave: the run never stops after an exhausted scan with the archive
\* file still on disk.
C1_DeletedAfterScan ==
    ~(/\ pc = "crashed"
      /\ hist[idx].retrieved
      /\ rec > Len(archive)
      /\ disk[local_filename] = "complete")

\* C2 (as stated): when every identifier of the source list matches the
\* token pattern, nothing aborts the run.
C2_RunsToCompletion ==
    (Running /\ \A j \in Entries : HasToken(j)) => pc # "crashed"

\* C3 (as stated): an entry whose processing is over has one metrics row if
\* it was retrieved and at least one text was accepted, and none otherwise;
\* with no text accepted no output file was created.
C3_RowIffAccepted ==
    Running =>
        \A j \in Entries : Ended(j) =>
            /\ RowsOf(j) =
                   (IF hist[j].retrieved /\ hist[j].accepted >= 1
                    THEN 1 ELSE 0)
            /\ hist[j].accepted = 0 => ~hist[j].created

\* the scan of the entry was ended by a failure before the last record
ScanFailed(j) == j = idx /\ pc = "crashed" /\ rec <= Len(archive)

\* C3 (amended): an entry whose processing is over has one metrics row if it
\* was retrieved, its identifier matches the token pattern, at least one
\* text was accepted and its scan was not ended by a failure, and none
\* otherwise; no entry ever has two rows; with no text accepted no output
\* file was created and nothing was appended.
C3_RowIffAcceptedAndToken ==
    Running =>
        \A j \in Entries :
            /\ RowsOf(j) <= 1
            /\ RowsOf(j) = 1 =>
                   hist[j].retrieved /\ hist[j].accepted >= 1 /\ HasToken(j)
            /\ Ended(j) =>
                   RowsOf(j) =
                       (IF /\ hist[j].retrieved
                           /\ hist[j].accepted >= 1
                           /\ HasToken(j)
                           /\ ~ScanFailed(j)
                        THEN 1 ELSE 0)
            /\ hist[j].accepted = 0 =>
                   ~hist[j].created /\ hist[j].appended = 0

C3_Witness ==
    /\ Running
    /\ \E j, k \in Entries :
          /\ Ended(j) /\ RowsOf(j) = 1 /\ hist[j].accepted >= 1
          /\ Ended(k) /\ hist[k].retrieved /\ hist[k].accepted = 0
          /\ RowsOf(k) = 0

\* C4: an entry whose retrieval failed on every attempt gets, once its error
\* was logged, exactly one error row, with its local file path; it has no
\* metrics row, wrote no output text, was never scanned, and the driver is at
\* the head of the loop or beyond.  No other entry has an error row.
C4_RetrievalFailure ==
    Running =>
        \A j \in Entries :
            IF hist[j].failed /\ ~(j = idx /\ pc = "logerr")
            THEN /\ ErrorRowsOf(j) = 1
                 /\ \A i \in 2..Len(errors) :
                        (errors[i].entry = j /\ errors[i].run = run) =>
                            errors[i].File_Path = LocalFilename(srcList[j])
                 /\ RowsOf(j) = 0
                 /\ hist[j].appended = 0 /\ ~hist[j].created
                 /\ ~hist[j].scanned /\ ~hist[j].retrieved
                 /\ Ended(j)
                 /\ (j = idx => pc \in {"loop", "finished"})
            ELSE ErrorRowsOf(j) = 0

C4_Witness ==
    /\ Running
    /\ \E j \in Entries : hist[j].failed /\ j < idx /\ ErrorRowsOf(j) = 1

\* C5: at most MAX_RETRIES attempts are made for an entry; an attempt is
\* made only when every earlier attempt failed and was followed by one wait;
\* after a successful attempt no further attempt is made; failure is
\* reported only after exactly MAX_RETRIES failed attempts.
C5_BoundedRetry ==
    Running =>
        /\ attempts <= MAX_RETRIES
        /\ pc = "fetch" =>
               /\ attempts = retry /\ attempts < MAX_RETRIES
               /\ waits = attempts
               /\ ~hist[idx].retrieved
        /\ pc = "sleep" =>
               /\ attempts = retry + 1
               /\ waits = attempts - 1
               /\ ~hist[idx].retrieved
        /\ pc = "convert" => attempts = retry + 1 /\ waits = retry
        /\ pc = "logerr" =>
               /\ attempts = MAX_RETRIES
               /\ ~hist[idx].retrieved
               /\ hist[idx].failed
        /\ \A j \in Entries : ~(hist[j].failed /\ hist[j].retrieved)

C5_Witness ==
    pc = "logerr" /\ attempts = MAX_RETRIES /\ waits >= MAX_RETRIES - 1

\* C6 (as stated): when the program is run again on the same source list
\* and the retrievals go as in the first run, the output text files are at
\* the end exactly what they were at the end of the first run.
C6_RerunSameTexts ==
    (/\ run = 2
     /\ pc = "finished"
     /\ prev.ended = "finished"
     /\ prev.retrieved = {j \in Entries : hist[j].retrieved})
        => texts = prev.texts

\* C6 (amended): a second run appends to the output files the first run
\* left, which are never truncated: each file keeps its first-run content as
\* a prefix at every point of the second run, and when the second run ends
\* with the retrievals gone as in the first run (which began with no output
\* file) each file holds its first-run content twice; the rows of both logs
\* are rows of the second run only.
C6_RerunAppends ==
    (run = 2 /\ Running) =>
        /\ \A t \in Tokens :
              /\ prev.texts[t].exists => texts[t].exists
              /\ Len(texts[t].data) >= Len(prev.texts[t].data)
              /\ SubSeq(texts[t].data, 1, Len(prev.texts[t].data))
                     = prev.texts[t].data
        /\ (/\ pc \in {"finished", "crashed"}
            /\ prev.retrieved = {j \in Entries : hist[j].retrieved})
               => \A t \in Tokens :
                      /\ texts[t].exists = prev.texts[t].exists
                      /\ texts[t].data
                             = prev.texts[t].data \o prev.texts[t].data
        /\ \A i \in 2..Len(csv) : csv[i].run = 2
        /\ \A i \in 2..Len(errors) : errors[i].run = 2

C6_Witness ==
    /\ run = 2
    /\ pc = "finished"
    /\ prev.ended = "finished"
    /\ prev.retrieved = {j \in Entries : hist[j].retrieved}
    /\ \E t \in Tokens : prev.texts[t].data # <<>>
    /\ Len(prev.csv) > 1 /\ Len(csv) > 1

\* C7: before the first retrieval attempt of a run both logs consist of
\* their header row alone, whatever the previous run left in them; and no
\* row of a previous run is ever in a log once the run has started.
C7_LogsReset ==
    Running =>
        /\ ((pc = "loop" /\ idx = 0) \/ (pc = "fetch" /\ idx = 1 /\ attempts = 0))
               => csv = <<MetricsHeader>> /\ errors = <<ErrorHeader>>
        /\ Len(csv) >= 1 /\ csv[1] = MetricsHeader
        /\ Len(errors) >= 1 /\ errors[1] = ErrorHeader
        /\ \A i \in 2..Len(csv) : csv[i].run = run
        /\ \A i \in 2..Len(errors) : errors[i].run = run

C7_Witness ==
    /\ run = 2
    /\ pc = "fetch" /\ idx = 1 /\ attempts = 0
    /\ Len(prev.csv) > 1
    /\ Len(prev.errors) > 1

\* C10: processing is sequential in source-list order: every entry before
\* the current one is DONE (logged as failed, or retrieved and scanned),
\* every entry after it is untouched; the only archive file of a retrieved
\* entry that can be on disk is the one at the current entry's path; and at
\* the head of the loop no archive file of a retrieved entry is on disk.
C10_Sequential ==
    Running =>
        /\ idx <= Len(srcList)
        /\ \A j \in Entries :
              /\ j < idx => (hist[j].failed /\ ErrorRowsOf(j) = 1)
                            \/ (hist[j].retrieved /\ hist[j].scanned
                                /\ RowsOf(j) = 1)
              /\ j > idx => /\ ~hist[j].retrieved /\ ~hist[j].failed
                            /\ ~hist[j].scanned
                            /\ RowsOf(j) = 0 /\ ErrorRowsOf(j) = 0
              /\ (j < idx /\ hist[j].retrieved
                    /\ LocalFilename(srcList[j]) # local_filename)
                    => disk[LocalFilename(srcList[j])] # "complete"
              /\ (j <= idx /\ pc = "loop" /\ hist[j].retrieved)
                    => disk[LocalFilename(srcList[j])] # "complete"

C10_Witness ==
    /\ pc = "fetch" /\ idx = 2
    /\ hist[1].retrieved
    /\ disk[LocalFilename(srcList[1])] = "absent"

(***************************************************************************)
(* Further properties of the run, checked under Spec.                      *)
(***************************************************************************)
\* C11 (as stated): when the scan of an archive met a broken place, the
\* texts accepted before it are in the output file and the failure stays
\* with that archive: the run does not stop at that entry.
C11_CorruptionConfined ==
    Running =>
        \A j \in Entries :
            hist[j].corrupt =>
                /\ hist[j].appended >= 1
                /\ ~(pc = "crashed" /\ idx = j)

\* the records of entry j the iterator has yielded so far: those before the
\* position of the iterator and before the first broken place
Yielded(j) ==
    LET arch == Remote(srcList[j])
        read == IF ~hist[j].scanned THEN 0
                ELSE IF j = idx THEN rec - 1 ELSE Len(arch)
        sound == Min({i \in 1..Len(arch) : arch[i] = Corrupt}
                         \cup {Len(arch) + 1}) - 1
    IN  IF read < sound THEN read ELSE sound

\* C12: the payloads handed to the filter during the scan of an entry are
\* those of the records of type response among the records yielded, in the
\* order of the archive, and no other record's.
C12_OnlyResponses ==
    Running =>
        \A j \in Entries :
            LET arch == Remote(srcList[j])
                responses == {i \in 1..Yielded(j) :
                                  arch[i].rec_type = "response"}
            IN  /\ Len(hist[j].handed) = Cardinality(responses)
                /\ \A n \in 1..Len(hist[j].handed) :
                       /\ hist[j].handed[n] \in responses
                       /\ n > 1 => hist[j].handed[n - 1] < hist[j].handed[n]

C12_Witness ==
    /\ Running
    /\ \E j, k \in Entries :
          /\ Ended(j) /\ hist[j].scanned /\ hist[j].handed = <<>>
          /\ Len(Remote(srcList[j])) >= 2
          /\ Ended(k) /\ hist[k].handed # <<>>
          /\ Len(hist[k].handed) < Yielded(k)

(***************************************************************************)
(* Properties of the filter, checked under FilterSpec.                     *)
(***************************************************************************)
Returned == fpc = "returned"
InRange(c) == c \in RANGE_LO..RANGE_HI
\* the document holds no character of the target range
NoTarget(html) ==
    \A i \in 1..Len(html) : html[i].k = "ch" => ~InRange(html[i].c)

\* C8 (as stated): for a document without a character of the target range
\* the filter returns None, whatever the threshold.
C8_NoTargetNone == (Returned /\ NoTarget(fHtml)) => fOut = None

\* C8 (amended): for a document without a character of the target range the
\* filter returns None when the threshold is at least 1 or the parse fails,
\* and the empty string when the threshold is 0 or negative.
C8_NoTargetNoneOrEmpty ==
    (Returned /\ NoTarget(fHtml)) =>
        fOut = (IF fMin >= 1 \/ ParseRaises(fHtml) THEN None ELSE <<>>)

C8_Witness ==
    /\ Returned /\ NoTarget(fHtml) /\ Len(fHtml) >= 1
    /\ fMin <= 0 /\ fOut = <<>>

\* the runs of target characters of a text, read one character at a time
RECURSIVE RunsByChar(_, _)
RunsByChar(text, cur) ==
    IF text = <<>> THEN (IF cur = <<>> THEN <<>> ELSE <<cur>>)
    ELSE IF InRange(Head(text))
         THEN RunsByChar(Tail(text), Append(cur, Head(text)))
         ELSE (IF cur = <<>> THEN <<>> ELSE <<cur>>)
                  \o RunsByChar(Tail(text), <<>>)

RECURSIVE Flatten(_)
Flatten(parts) ==
    IF parts = <<>> THEN <<>> ELSE Head(parts) \o Flatten(Tail(parts))

\* the runs joined by single spaces: every run but the last gets a space
SpaceJoined(parts) ==
    Flatten([i \in 1..Len(parts) |->
                IF i < Len(parts) THEN Append(parts[i], SPACE) ELSE parts[i]])

RECURSIVE Outside(_, _, _)
Outside(html, inside, keep) ==
    IF html = <<>> THEN <<>>
    ELSE LET t == Head(html)
             edge == IF keep THEN <<t>> ELSE <<>>
         IN  IF inside # "none"
             THEN IF t.k = "close" /\ t.tag = inside
                  THEN edge \o Outside(Tail(html), "none", keep)
                  ELSE Outside(Tail(html), inside, keep)
             ELSE IF t.k = "open" /\ t.tag \in {"style", "script"}
                  THEN edge \o Outside(Tail(html), t.tag, keep)
                  ELSE <<t>> \o Outside(Tail(html), "none", keep)

\* C13 (as stated): the result for a well-formed document is the result for
\* the document with its style and script elements removed.
C13_SameAsRemoved ==
    (Returned /\ ~ParseRaises(fHtml)) =>
        fOut = process_and_check_malayalam_text(
                   Outside(fHtml, "none", FALSE), fMin)

\* C13 (amended): no text inside a style or script element contributes: the
\* reduced text and the result for a well-formed document are those for the
\* document with the content of its style and script elements removed, the
\* emptied elements staying in place (they still end the text node before
\* them, so the texts around them are joined with a space).
C13_SameAsEmptied ==
    (Returned /\ ~ParseRaises(fHtml)) =>
        /\ ReducedText(fHtml) = ReducedText(Outside(fHtml, "none", TRUE))
        /\ fOut = process_and_check_malayalam_text(
                      Outside(fHtml, "none", TRUE), fMin)

C13_Witness ==
    /\ Returned /\ fOut = <<MAL_A>>
    /\ \E i \in 1..Len(fHtml) : fHtml[i] = Ch(RANGE_HI)
    /\ \E i \in 1..Len(fHtml) : fHtml[i] = Open("script")

\* C14: an output text file changes only when the scan writes an accepted
\* text, and then the file of the archive's token becomes its previous
\* content followed by that text, the texts coming in record order since the
\* scan goes through the records in order; no file is ever removed,
\* truncated or overwritten, also when an earlier entry wrote to it.
C14_AppendOnly ==
    [][\A t \in Tokens :
          /\ texts[t].exists => texts'[t].exists
          /\ texts'[t] # texts[t] =>
                /\ pc = "scan" /\ pc' = "scan" /\ rec' = rec + 1
                /\ t = Matched(local_filename)
                /\ archive[rec].rec_type = "response"
                /\ hist'[idx].accepted = hist[idx].accepted + 1
                /\ texts'[t].exists
                /\ Len(texts'[t].data) >= Len(texts[t].data) + DEFAULT_MIN_WORDS
                /\ SubSeq(texts'[t].data, 1, Len(texts[t].data))
                       = texts[t].data
                /\ SubSeq(texts'[t].data, Len(texts[t].data) + 1,
                          Len(texts'[t].data))
                       = process_and_check_malayalam_text(
                             archive[rec].content, DEFAULT_MIN_WORDS)]_vars

\* the second of two different entries with the same token has written
\* after the first
C14_Witness ==
    /\ run = 1 /\ idx = 2 /\ pc = "scan"
    /\ srcList[1] # srcList[2]
    /\ Matched(LocalFilename(srcList[1])) = Matched(LocalFilename(srcList[2]))
    /\ hist[1].appended >= 1 /\ hist[2].appended >= 2
    /\ Len(texts[Matched(local_filename)].data) > 3 * DEFAULT_MIN_WORDS

\* C15: during a run each log starts with its header, the rows of the
\* metrics log after it belong to entries in
\* increasing source-list position, and so do the rows of the error log;
\* each row names the file of its entry, and a step of the run leaves the
\* rows already in either log unchanged and in place.
C15_LogOrder ==
    /\ [](Running =>
            /\ csv[1] = MetricsHeader /\ errors[1] = ErrorHeader
            /\ \A i \in 2..Len(csv) :
                  /\ csv[i].run = run
                  /\ csv[i].entry \in 1..idx
                  /\ csv[i].File_Path = OutputFilePath(
                         Matched(LocalFilename(srcList[csv[i].entry])))
                  /\ \A k \in 2..(i - 1) : csv[k].entry < csv[i].entry
            /\ \A i \in 2..Len(errors) :
                  /\ errors[i].run = run
                  /\ errors[i].entry \in 1..idx
                  /\ errors[i].File_Path
                         = LocalFilename(srcList[errors[i].entry])
                  /\ \A k \in 2..(i - 1) : errors[k].entry < errors[i].entry)
    /\ [][(Running /\ pc' # "start") =>
            /\ Len(csv') >= Len(csv)
            /\ SubSeq(csv', 1, Len(csv)) = csv
            /\ Len(errors') >= Len(errors)
            /\ SubSeq(errors', 1, Len(errors)) = errors]_vars

\* two entries of one run have their metrics rows
C15_Witness ==
    /\ Running /\ Len(csv) = 3
    /\ csv[2].entry = 1 /\ csv[3].entry = 2

\* C16: when the scan is at a response record whose payload makes the HTML
\* parser raise, the filter returns nothing for it, and the step of the scan
\* appends nothing to any output file, accepts nothing, writes no log row
\* and moves on to the next record of the same archive.
C16_ParseFailureLocal ==
    [][(/\ pc = "scan" /\ rec <= Len(archive)
        /\ archive[rec] = Response(PageBad))
       => /\ process_and_check_malayalam_text(PageBad, DEFAULT_MIN_WORDS)
                = None
          /\ pc' = "scan" /\ rec' = rec + 1 /\ idx' = idx
          /\ texts' = texts /\ csv' = csv /\ errors' = errors
          /\ output_file_path' = output_file_path
          /\ hist'[idx].accepted = hist[idx].accepted
          /\ hist'[idx].appended = hist[idx].appended]_vars

\* the scan went past a payload that could not be parsed and accepted the
\* record after it
C16_Witness ==
    /\ pc = "scan" /\ rec = 4
    /\ archive[2] = Response(PageBad)
    /\ hist[idx].accepted = 2 /\ hist[idx].appended = 2

\* C17: once an entry whose identifier does not end in the token pattern has
\* been retrieved, the run stays at that entry: the entry creates and
\* appends to no output file, gets no metrics row, never reaches the removal
\* of its archive or the next line of the source list, and the end of its
\* scan is followed by the failure that ends the run.
C17_UnmatchedEscapes ==
    /\ [](\A j \in Entries :
            (Running /\ hist[j].retrieved /\ ~HasToken(j)) =>
                /\ idx = j
                /\ pc \in {"convert", "scan", "crashed"}
                /\ RowsOf(j) = 0 /\ ErrorRowsOf(j) = 0
                /\ ~hist[j].created /\ hist[j].appended = 0
                /\ \A k \in Entries : k > j =>
                      ~hist[k].retrieved /\ ~hist[k].failed /\ RowsOf(k) = 0)
    /\ [][(/\ pc = "scan" /\ rec > Len(archive) /\ ~HasToken(idx))
          => pc' = "crashed"]_vars

\* the run has ended in the failure at an entry without a token, with texts
\* accepted and another entry still to come
C17_Witness ==
    /\ pc = "crashed" /\ idx < Len(srcList)
    /\ hist[idx].retrieved /\ ~HasToken(idx)
    /\ hist[idx].accepted >= 1 /\ rec > Len(archive)

\* the entry has reached DONE: the driver is back at the loop head after it,
\* or has gone past it
Done(j) == j < idx \/ (j = idx /\ pc \in {"loop", "finished"})

\* an archive retrieved in this run is on disk only as the file of the entry
\* in flight
OnlyInFlightArchive ==
    \A j \in Entries :
        (/\ hist[j].retrieved
         /\ disk[LocalFilename(srcList[j])] = "complete") =>
            /\ LocalFilename(srcList[j]) = local_filename
            /\ hist[idx].retrieved
            /\ ~Done(idx)

\* C18 as stated: during a run every entry with a row in the metrics log or
\* the error log has reached DONE, and an archive retrieved in the run is on
\* disk only as the file of the entry in flight.
C18_RowsOnlyForDone ==
    Running =>
        /\ \A j \in Entries : (RowsOf(j) > 0 \/ ErrorRowsOf(j) > 0) => Done(j)
        /\ OnlyInFlightArchive

\* C18, amended: during a run every entry with an error row has failed for
\* good and reached DONE; every entry with a metrics row has been scanned to
\* the end and either has reached DONE or is the entry in flight whose
\* archive is about to be deleted; and an archive retrieved in the run is on
\* disk only as the file of the entry in flight.
C18_RowsForDoneOrScanned ==
    Running =>
        /\ \A j \in Entries :
              /\ ErrorRowsOf(j) > 0 => (hist[j].failed /\ Done(j))
              /\ RowsOf(j) > 0 =>
                    /\ hist[j].retrieved /\ hist[j].scanned
                    /\ Done(j) \/ (j = idx /\ pc = "remove"
                                   /\ rec > Len(archive)
                                   /\ disk[local_filename] = "complete")
        /\ OnlyInFlightArchive

\* the second entry has its metrics row while its archive is still on disk,
\* the first entry being done
C18_Witness ==
    /\ idx = 2 /\ pc = "remove"
    /\ RowsOf(2) = 1 /\ disk[local_filename] = "complete"
    /\ RowsOf(1) + ErrorRowsOf(1) = 1

\* C19: a failed attempt is followed by one wait before anything else
\* happens, the last attempt included: an attempt starts after as many waits
\* as attempts were made, the error row is written after MAX_RETRIES
\* attempts and MAX_RETRIES waits, and a retrieval that succeeds on attempt
\* k is handed to the scan after k - 1 waits.
C19_WaitAfterEveryFailure ==
    /\ [](/\ pc = "fetch" => (waits = attempts /\ attempts = retry
                               /\ attempts < MAX_RETRIES)
          /\ pc = "sleep" => (waits = attempts - 1 /\ attempts = retry + 1)
          /\ pc = "logerr" => (attempts = MAX_RETRIES /\ waits = MAX_RETRIES
                                /\ ErrorRowsOf(idx) = 0)
          /\ pc = "convert" => (attempts \in 1..MAX_RETRIES
                                 /\ waits = attempts - 1))
    /\ [][pc = "sleep" =>
            /\ waits' = waits + 1
            /\ pc' \in {"fetch", "logerr"}
            /\ UNCHANGED <<csv, errors, disk, texts, attempts, idx>>]_vars

\* all attempts have failed and the wait after the last one is over, the
\* error row not yet written
C19_Witness ==
    /\ pc = "logerr" /\ attempts = MAX_RETRIES /\ waits = MAX_RETRIES
    /\ ErrorRowsOf(idx) = 0

\* C20: while the archive of an entry without a token is scanned, every
\* step of the scan leaves all output files as they are, whether or not the
\* filter accepts the record, and goes on to the next record; the run fails
\* for that entry only once all its records have been read, and from then
\* on its archive is on disk, complete and not deleted.
C20_DiscardedThenFails ==
    /\ [][(/\ pc = "scan" /\ ~HasToken(idx) /\ rec <= Len(archive)
           /\ archive[rec] # Corrupt)
          => /\ texts' = texts /\ output_file_path' = Unbound
             /\ pc' = "scan" /\ rec' = rec + 1
             /\ hist'[idx].appended = 0
             /\ hist'[idx].accepted = hist[idx].accepted +
                   (IF /\ archive[rec].rec_type = "response"
                       /\ process_and_check_malayalam_text(
                              archive[rec].content, DEFAULT_MIN_WORDS) # None
                    THEN 1 ELSE 0)]_vars
    /\ []((pc = "crashed" /\ ~HasToken(idx) /\ ~hist[idx].corrupt) =>
             /\ rec = Len(archive) + 1
             /\ Yielded(idx) = Len(archive)
             /\ output_file_path = Unbound
             /\ hist[idx].appended = 0
             /\ disk[local_filename] = "complete")

\* the run has failed at an entry without a token after a text was accepted
\* and the record after it was read; no output file exists
C20_Witness ==
    /\ pc = "crashed" /\ ~HasToken(idx) /\ run = 1
    /\ hist[idx].accepted = 1 /\ rec = 3
    /\ \A t \in Tokens : ~texts[t].exists
    /\ disk[local_filename] = "complete"

=============================================================================
